---- MODULE Spec2Model ----
(***************************************************************************)
(* Model of the backend orchestration of the CDN acceptance tests:         *)
(* CDNBackendServer (ServeHTTP, ResetHandler, SwitchHandler, IsStarted,    *)
(* Stop, Start), ResetBackends, stopBackends and waitForBackend from       *)
(* helpers.go, the fleet built by init() in main_test.go, and the edge     *)
(* (the CDN under test), which is not part of the sources and is modelled  *)
(* from its description as an opaque collaborator.                         *)
(***************************************************************************)
EXTENDS Integers, Sequences, FiniteSets, TLC

\* ------------------------------------------------------------------------
\* Program constants
\* ------------------------------------------------------------------------

\* len(backendsByPriority) when failover is not skipped: origin, backup1, backup2
NumBackends == 3

\* const maxRetries in waitForBackend
maxRetries == 20

\* const timeBetweenAttempts and waitForCdnProbeToPropagate in
\* waitForBackend, in seconds
timeBetweenAttempts == 2
waitForCdnProbeToPropagate == 5

\* Cap of the count of requests of one waitForBackend
MaxRequests == 22

Backends == 1..NumBackends

Range(seq) == {seq[k] : k \in 1..Len(seq)}

\* CDNBackendServer.Name of each member of backendsByPriority, in priority order
Name == <<"origin", "backup1", "backup2">>

\* Handlers the tests install with SwitchHandler, by the status they write:
\* "default" is the empty function of ResetHandler, "h503" writes 503 and a
\* body, "hTicket" writes a body only (status 200).
CustomHandlers == {"h503", "hTicket"}
Handlers == {"default"} \cup CustomHandlers

Methods == {"GET", "HEAD", "POST"}
Paths == {"/", "/p"}

\* Port of each member of the fleet: the defaults of the flags originPort,
\* backupPort1 and backupPort2
ConfiguredPort == <<8080, 8081, 8082>>

\* Ports the kernel may assign to a listener asked for port 0
KernelPorts == {49152, 49153}

\* The value of the flag edgeHost, other hosts the client connects to (a
\* backend's own URL, a third party), the addresses the edge host name
\* resolves to, and the ports of the requests
EdgeHost == "edge.example"
OtherHosts == {"127.0.0.1", "other.example"}
Hosts == {EdgeHost} \cup OtherHosts
EdgeIPs == {"192.0.2.1", "192.0.2.2", "192.0.2.3"}
DialPorts == {"80", "443"}

\* Cap of the number of connections the client opens
MaxDials == 6

\* Number of backends the lifecycle test creates and drives on their own
NumSolo == 1
Solo == 1..NumSolo

\* Number of test functions the test binary runs, one after the other
NumTests == 2
Tests == 1..NumTests

\* Cap of the number of requests one test function makes
MaxRoundTrips == 2

\* requestSlowThreshold, and the durations of a round trip, in milliseconds
requestSlowThreshold == 1000
Durations == {200, 1000, 1500}

\* Cap of the number of requests a failover test sends through the edge
MaxEdgeRequests == 2

\* The URLs the tests of the edge's failover and PURGE handling request
EdgeURLs == 1..3

\* Bodies the handlers of the caching checks write
responseCached == "first response"
responseNotCached == "subsequent response"
responseBodies == <<"first response", "second response", "third response">>

\* respTTL of the caching checks, in milliseconds (0: cached indefinitely)
TTLs == {0, 2000, 5000}

\* Fixture files: their extensions, and their contents as byte sequences of
\* at most MaxFixtureLen bytes
Exts == {".html", ".png", ".txt", ".bin"}
MaxFixtureLen == 2

\* Cap of the number of health probes that reach origin during one check
MaxProbes == 2
Bytes == {0, 255}
Fixtures == UNION {[1..n -> Bytes] : n \in 0..MaxFixtureLen}

VARIABLES
  server,                    \* server[b]: s.server != nil
  handler,                   \* handler[b]: s.handler ("nil" before the first Start)
  port,                      \* port[b]: s.Port
  pc,                        \* position of the test process
  i,                         \* loop variable of ResetBackends (1-based index of backend)
  remainingBackendsStopped,  \* local of ResetBackends
  try,                       \* loop variable of waitForBackend
  err,                       \* error returned by the last waitForBackend
  urls,                      \* NewUniqueEdgeURL calls of the last waitForBackend
  requests,                  \* client.RoundTrip calls of the last waitForBackend
  lastSleep,                 \* seconds the last attempt of waitForBackend slept
  edgeHealthy,               \* the edge's view of each backend's health
  served,                    \* what the backends served for the last request
  lastResp,                  \* what the client received for the last request
  entryStarted,              \* backends started on entry of the current ResetBackends
  startLog,                  \* Start calls of the current ResetBackends, in order
  stopLog,                   \* Stop calls of the current ResetBackends, in order
  confirmed,                 \* backends confirmed by waitForBackend in the current call
  polled,                    \* the current ResetBackends sent a request to the edge
  afterReset,                \* ResetBackends returned and the tests did nothing since
  consec,                    \* the current ResetBackends directly follows another one
  misuse,                    \* Start calls on a started backend and Stop calls on a
                             \* not started one made by the current ResetBackends
  retFleet,                  \* fleet state when ResetBackends last returned
  prevRetFleet,              \* fleet state when ResetBackends returned the time before
  created,                   \* created[b]: s.Port when the backend was constructed
  lastCall,                  \* lastCall[b]: the last method called on the backend
  lastLife,                  \* lastLife[b]: the last of Start and Stop called on it
  stoppedWith,               \* stoppedWith[b]: s.handler at the last Stop
  firstPort,                 \* firstPort[b]: s.Port when the first Start returned
  boundPort,                 \* boundPort[b]: port of the listener of the last Start
  lastConn,                  \* target of the last direct request and the last
                             \* Start or Stop that preceded it
  hardCachedIP,              \* the cached address of the edge host ("" if none)
  lookups,                   \* net.LookupHost calls made so far
  dials,                     \* net.Dial calls made so far
  dialed,                    \* the last net.Dial: host asked for, address dialed
  firstIP,                   \* address of the first connection to the edge host
  tests,                     \* tests[t]: the testing.T of test function t and
                             \* what the function did with it
  returned,                  \* the last RoundTripCheckError: its caller, what
                             \* the transport gave and what the caller got back
  check,                     \* the assertion helper test 1 runs: its arguments,
                             \* its locals and what it sent and received
  scenario,                  \* the kind of test that drives the edge
  edgeCache,                 \* edgeCache[u]: the response the edge stored for URL u
  edgeLog,                   \* the requests the test sent through the edge and
                             \* what the edge did with each
  outstanding,               \* requests of waitForBackend sent to the edge and
                             \* not yet answered
  flags,                     \* the command line as flag.Parse read it
  startExit,                 \* status init() ended the process with before it
                             \* made the fleet (NoExit: it did not)
  random,                    \* the 16 bytes rand.Read gave the last NewUUID
  uuid                       \* the string the last NewUUID returned

waitVars == <<urls, requests, lastSleep>>
resetVars == <<i, remainingBackendsStopped, try, err, waitVars>>
callVars == <<entryStarted, startLog, stopLog, confirmed, polled, afterReset,
              consec, misuse, retFleet, prevRetFleet>>
lifeVars == <<created, lastCall, lastLife, stoppedWith, firstPort, boundPort,
              lastConn>>
dialVars == <<hardCachedIP, lookups, dials, dialed, firstIP>>
runVars == <<tests, returned>>
checkVars == <<check>>
fleetVars == <<server, handler, port, pc, edgeHealthy, served, lastResp,
               resetVars, callVars, lifeVars, dialVars>>
cdnVars == <<scenario, edgeCache, edgeLog>>
auxVars == <<outstanding, flags, startExit, random, uuid>>
laterVars == <<runVars, checkVars, cdnVars, auxVars>>
histVars == <<callVars, lifeVars, dialVars, laterVars>>
vars == <<server, handler, port, pc, edgeHealthy, served, lastResp, resetVars,
          histVars>>

\* ------------------------------------------------------------------------
\* CDNBackendServer
\* ------------------------------------------------------------------------

\* Status a handler leaves on the response; net/http answers 200 when the
\* handler returns without calling WriteHeader.
HandlerStatus_ok(h) == 200

HandlerStatus(h) == IF h \in {"h503", "h503nf"} THEN 503 ELSE 200

HandlerNoFallback_never(h) == FALSE

\* The handler sets the No-Fallback header on its response
HandlerNoFallback(h) == h = "h503nf"

HandlerBody_name(h, s) == IF h \in {"default", "nil"} THEN "" ELSE Name[s]

\* The body handler h writes when backend s runs it
HandlerBody(h, s) ==
  CASE h = "hTicket" -> "lucky golden ticket"
    [] h = "h503nf" -> "custom error page"
    [] h = "hKeep" -> "this should not be purged"
    [] h \in {"h503", "hName"} -> Name[s]
    [] OTHER -> ""

Is5xx(status) == status >= 500 /\ status <= 599

IsStarted(s) == server[s]

IsProbe_never(method, path) == FALSE

\* The request is swallowed as a health check, without calling the handler.
IsProbe(method, path) == method = "HEAD"

ServeHTTP_lateStamp(s, method, path) ==
  IF IsProbe(method, path)
    THEN [backend |-> s, method |-> method, path |-> path,
          BackendName |-> "", PING |-> "PONG",
          handlerCalls |-> 0, handledBy |-> "none", status |-> 200]
    ELSE [backend |-> s, method |-> method, path |-> path,
          BackendName |-> Name[s], PING |-> "",
          handlerCalls |-> 1, handledBy |-> handler[s],
          status |-> HandlerStatus(handler[s])]

\* What ServeHTTP does with one request to backend s.
ServeHTTP(s, method, path) ==
  IF IsProbe(method, path)
    THEN [backend |-> s, method |-> method, path |-> path,
          BackendName |-> Name[s], PING |-> "PONG",
          handlerCalls |-> 0, handledBy |-> "none", status |-> 200]
    ELSE [backend |-> s, method |-> method, path |-> path,
          BackendName |-> Name[s], PING |-> "",
          handlerCalls |-> 1, handledBy |-> handler[s],
          status |-> HandlerStatus(handler[s])]

ResetHandler_noop(s, hs) == hs

\* handler field after ResetHandler
ResetHandler(s, hs) == [hs EXCEPT ![s] = "default"]

\* handler field after SwitchHandler(h)
SwitchHandler(s, h, hs) == [hs EXCEPT ![s] = h]

Stop_all(s, sv) == [b \in Backends |-> FALSE]

\* server field after Stop
Stop(s, sv) == [sv EXCEPT ![s] = FALSE]

Start_unset(s, sv) == sv

\* server field after Start
Start(s, sv) == [sv EXCEPT ![s] = TRUE]

\* Port of the listener Start binds, k being the port the kernel assigns
\* when asked for port 0
ListenPort(s, k, ps) == IF ps[s] = 0 THEN k ELSE ps[s]

BindPort_forget(s, k, ps) == ps

\* Port field after Start: the port of the listener is stored if Port was 0
BindPort(s, k, ps) ==
  IF ps[s] = 0 THEN [ps EXCEPT ![s] = ListenPort(s, k, ps)] ELSE ps

Connect_open(s) == "accepted"

\* Outcome of a connection attempt to the port of backend s: the listener is
\* bound by Start and closed, with its connections, by Stop
Connect(s) == IF server[s] THEN "accepted" ELSE "refused"

\* What the client sees of a backend's response
ClientResp(r) == [kind |-> "resp", BackendName |-> r.BackendName,
                  PING |-> r.PING, status |-> r.status]

TransportError == [kind |-> "err", BackendName |-> "", PING |-> "", status |-> 0]
NoConn == [backend |-> 0, after |-> "none"]
NoDial == [host |-> "", port |-> "", addr |-> ""]
NoResp == [kind |-> "none", BackendName |-> "", PING |-> "", status |-> 0]

\* The flags before flag.Parse: their defaults
NoFlags == [usage |-> FALSE, edgeHost |-> "", vendor |-> "", certs |-> "none"]

\* startExit while init() has not ended the process
NoExit == -1

\* ------------------------------------------------------------------------
\* The edge
\* ------------------------------------------------------------------------

\* The edge's own error page, served when no backend could answer
EdgeErrorPage == [kind |-> "resp", BackendName |-> "", PING |-> "", status |-> 503]

\* The edge forwards an uncached GET to the backends it believes healthy, in
\* fleet order, moving on after a failed connection or a 5xx without the
\* No-Fallback header (which also makes it back off from that backend), and
\* stopping at the first other answer.
RECURSIVE EdgeWalk(_, _, _)
EdgeWalk(b, health, hops) ==
  IF b > NumBackends THEN [hops |-> hops, health |-> health]
  ELSE IF ~health[b] \/ ~IsStarted(b) THEN EdgeWalk(b + 1, health, hops)
  ELSE LET r == ServeHTTP(b, "GET", "/") IN
       IF Is5xx(r.status) /\ ~HandlerNoFallback(r.handledBy)
         THEN EdgeWalk(b + 1, [health EXCEPT ![b] = FALSE], Append(hops, r))
         ELSE [hops |-> Append(hops, r), health |-> health]

\* The response the edge gives the client after the walk
EdgeAnswer(hops) ==
  IF hops = <<>> THEN EdgeErrorPage ELSE ClientResp(hops[Len(hops)])

\* A periodic health probe (HEAD /) of backend b by the edge
EdgeProbe(b) ==
  /\ pc # "exited"
  /\ edgeHealthy' = [edgeHealthy EXCEPT ![b] =
                       IsStarted(b) /\ ServeHTTP(b, "HEAD", "/").status = 200]
  /\ edgeHealthy' # edgeHealthy
  /\ UNCHANGED <<port, server, handler, pc, served, lastResp, resetVars,
                 histVars>>

\* ------------------------------------------------------------------------
\* ResetBackends, stopBackends, waitForBackend
\* ------------------------------------------------------------------------

ShouldStop_always(started) == TRUE

\* The test stopBackends makes before it calls Stop: backend.IsStarted()
ShouldStop(started) == started

stopBackends_none(n, sv) == sv

RECURSIVE stopBackends(_, _)
\* server field of the fleet after stopBackends(backends[0:n])
stopBackends(n, sv) ==
  IF n = 0 THEN sv
  ELSE LET before == stopBackends(n - 1, sv) IN
       IF ShouldStop(before[n]) THEN Stop(n, before) ELSE before

\* The calls stopBackends(backends[0:n]) makes on a backend in a state in
\* which the method fails: Stop on a backend that is not started
StopMisuse(n, sv) ==
  IF \E k \in 1..n : ShouldStop(sv[k]) /\ ~sv[k] THEN {"Stop"} ELSE {}

\* The call ResetBackends makes on a backend in a state in which the method
\* fails: Start on a backend that is started
StartMisuse(s, sv) == IF sv[s] THEN {"Start"} ELSE {}

\* the backends that went from started to stopped between two server fields,
\* in fleet order
StopCalls(before, after) ==
  SelectSeq([k \in Backends |-> k], LAMBDA k: before[k] /\ ~after[k])

NeedsStart_always(s) == TRUE

\* The branch ResetBackends takes for backend s: else-branch when not started
NeedsStart(s) == ~IsStarted(s)

AfterStart_nowait == "loop"

\* After backend.Start() ResetBackends calls waitForBackend
AfterStart == "poll"

AfterWait_continue(e) == "loop"

\* Where ResetBackends continues after waitForBackend returned e: log.Fatal
\* ends the process on an error
AfterWait(e) == IF e # "nil" THEN "exited" ELSE "loop"

Matches_any(resp, expected) == resp.kind = "resp"

\* Does this response end the poll for the expected backend with success
Matches(resp, expected) == resp.BackendName = expected

Fleet == [server |-> server, handler |-> handler]

\* ResetBackends is called, by init() or at the beginning of a test
ResetBackendsCall ==
  /\ pc \in {"init", "test"}
  /\ pc' = "loop"
  /\ i' = NumBackends
  /\ remainingBackendsStopped' = FALSE
  /\ try' = 0
  /\ err' = "nil"
  /\ urls' = 0
  /\ requests' = 0
  /\ lastSleep' = 0
  /\ entryStarted' = {b \in Backends : IsStarted(b)}
  /\ startLog' = <<>>
  /\ stopLog' = <<>>
  /\ confirmed' = {}
  /\ polled' = FALSE
  /\ consec' = afterReset
  /\ misuse' = {}
  /\ afterReset' = FALSE
  /\ UNCHANGED <<port, server, handler, edgeHealthy, served, lastResp,
                 retFleet, prevRetFleet, lifeVars,
                 dialVars, laterVars>>

\* Loop body, backend.IsStarted(): only the handler is reset
ResetStarted ==
  /\ pc = "loop"
  /\ i > 0
  /\ ~NeedsStart(i)
  /\ handler' = ResetHandler(i, handler)
  /\ i' = i - 1
  /\ UNCHANGED <<port, server, pc, remainingBackendsStopped, try, err,
                 waitVars, edgeHealthy, served, lastResp, histVars>>

\* Loop body, backend not started: stop the unchecked ones, Start, then poll
ResetNotStarted ==
  /\ pc = "loop"
  /\ i > 0
  /\ NeedsStart(i)
  /\ LET stopped == IF remainingBackendsStopped THEN server
                    ELSE stopBackends(i - 1, server)
     IN /\ server' = Start(i, stopped)
        /\ stopLog' = stopLog \o StopCalls(server, stopped)
        /\ misuse' = misuse \cup StartMisuse(i, stopped) \cup
                       (IF remainingBackendsStopped THEN {}
                        ELSE StopMisuse(i - 1, server))
  /\ \E k \in KernelPorts : port' = BindPort(i, k, port)
  /\ remainingBackendsStopped' = TRUE
  /\ handler' = ResetHandler(i, handler)
  /\ startLog' = Append(startLog, i)
  /\ pc' = AfterStart
  /\ try' = 0
  /\ urls' = 0
  /\ requests' = 0
  /\ lastSleep' = 0
  /\ UNCHANGED <<i, err, edgeHealthy, served, lastResp, entryStarted,
                 confirmed, polled, afterReset, consec, retFleet,
                 prevRetFleet, lifeVars,
                 dialVars, laterVars>>

Sleep_nofirst(matched, t) ==
  IF matched THEN waitForCdnProbeToPropagate ELSE timeBetweenAttempts

\* Seconds attempt number t sleeps after a response: waitForCdnProbeToPropagate
\* before a success that is not the first attempt, timeBetweenAttempts
\* before the next attempt
Sleep(matched, t) ==
  IF matched THEN (IF t # 0 THEN waitForCdnProbeToPropagate ELSE 0)
  ELSE timeBetweenAttempts

NextTry_wrap(t) == IF t = maxRetries THEN 0 ELSE t + 1

\* try++ of the loop of waitForBackend
NextTry(t) == t + 1

\* The count of URLs generated, after NewUniqueEdgeURL generated one more
NewUniqueEdgeURL(made) == made + 1

\* One iteration of the loop of waitForBackend(backend.Name)
WaitAttempt ==
  /\ pc = "poll"
  /\ try <= maxRetries
  /\ requests < MaxRequests
  /\ polled' = TRUE
  /\ urls' = NewUniqueEdgeURL(urls)
  /\ requests' = requests + 1
  /\ \/ \* client.RoundTrip returns an error
        /\ lastResp' = TransportError
        /\ served' = <<>>
        /\ err' = "transport"
        /\ pc' = AfterWait("transport")
        /\ lastSleep' = 0
        /\ UNCHANGED <<i, try, edgeHealthy, confirmed>>
     \/ \* the edge answers
        LET w == EdgeWalk(1, edgeHealthy, <<>>)
            resp == EdgeAnswer(w.hops)
        IN /\ lastResp' = resp
           /\ served' = w.hops
           /\ edgeHealthy' = w.health
           /\ lastSleep' = Sleep(Matches(resp, Name[i]), try)
           /\ IF Matches(resp, Name[i])
                THEN /\ err' = "nil"
                     /\ confirmed' = confirmed \cup {i}
                     /\ pc' = AfterWait("nil")
                     /\ i' = i - 1
                     /\ try' = 0
                ELSE /\ try' = NextTry(try)
                     /\ UNCHANGED <<err, pc, i, confirmed>>
  /\ UNCHANGED <<port, server, handler, remainingBackendsStopped,
                 entryStarted, startLog, stopLog, afterReset, consec, misuse,
                 retFleet, prevRetFleet, lifeVars,
                 dialVars, laterVars>>

\* The loop of waitForBackend ran out of attempts
WaitExhausted ==
  /\ pc = "poll"
  /\ try > maxRetries
  /\ err' = "unavailable"
  /\ pc' = AfterWait("unavailable")
  /\ UNCHANGED <<port, server, handler, i, remainingBackendsStopped, try,
                 waitVars, edgeHealthy, served, lastResp, histVars>>

\* The loop of ResetBackends is over, the call returns
ResetReturn ==
  /\ pc = "loop"
  /\ i = 0
  /\ pc' = "test"
  /\ afterReset' = TRUE
  /\ retFleet' = Fleet
  /\ prevRetFleet' = retFleet
  /\ urls' = 0
  /\ requests' = 0
  /\ lastSleep' = 0
  /\ UNCHANGED <<port, server, handler, i, remainingBackendsStopped, try, err,
                 edgeHealthy, served, lastResp, entryStarted, startLog,
                 stopLog, confirmed, polled, consec, misuse, lifeVars,
                 dialVars, laterVars>>

AfterSend_nowait == "poll"

\* Where waitForBackend is after it handed a request to client.RoundTrip:
\* blocked in the call until the response or the error comes back
AfterSend == "sent"

\* An iteration of the loop of waitForBackend up to client.RoundTrip: the
\* request for a new URL leaves for the edge
PollSend ==
  /\ pc = "poll"
  /\ try <= maxRetries
  /\ requests < MaxRequests
  /\ polled' = TRUE
  /\ urls' = NewUniqueEdgeURL(urls)
  /\ requests' = requests + 1
  /\ outstanding' = outstanding + 1
  /\ pc' = AfterSend
  /\ UNCHANGED <<port, server, handler, i, remainingBackendsStopped, try, err,
                 lastSleep, edgeHealthy, served, lastResp, entryStarted,
                 startLog, stopLog, confirmed, afterReset, consec, misuse,
                 retFleet, prevRetFleet, lifeVars, dialVars, runVars,
                 checkVars, cdnVars, flags, startExit, random, uuid>>

\* The rest of the iteration: client.RoundTrip returns, the response is
\* compared with the expected name and waitForBackend sleeps or returns
PollReceive ==
  /\ pc = "sent"
  /\ outstanding' = outstanding - 1
  /\ \/ \* client.RoundTrip returns an error
        /\ lastResp' = TransportError
        /\ served' = <<>>
        /\ err' = "transport"
        /\ pc' = AfterWait("transport")
        /\ lastSleep' = 0
        /\ UNCHANGED <<i, try, edgeHealthy, confirmed>>
     \/ \* the edge answers
        LET w == EdgeWalk(1, edgeHealthy, <<>>)
            resp == EdgeAnswer(w.hops)
        IN /\ lastResp' = resp
           /\ served' = w.hops
           /\ edgeHealthy' = w.health
           /\ lastSleep' = Sleep(Matches(resp, Name[i]), try)
           /\ IF Matches(resp, Name[i])
                THEN /\ err' = "nil"
                     /\ confirmed' = confirmed \cup {i}
                     /\ pc' = AfterWait("nil")
                     /\ i' = i - 1
                     /\ try' = 0
                ELSE /\ try' = NextTry(try)
                     /\ pc' = "poll"
                     /\ UNCHANGED <<err, i, confirmed>>
  /\ UNCHANGED <<port, server, handler, remainingBackendsStopped, urls,
                 requests, entryStarted, startLog, stopLog, polled,
                 afterReset, consec, misuse, retFleet, prevRetFleet, lifeVars,
                 dialVars, runVars, checkVars, cdnVars, flags, startExit,
                 random, uuid>>

\* ------------------------------------------------------------------------
\* NewUUID
\* ------------------------------------------------------------------------

\* The bytes rand.Read is let to give: every value listed for the first byte,
\* for bytes 6 and 8, which NewUUID changes, and for the last byte; a fixed
\* value each for the twelve others. Sequences count from 1, so byte k of
\* the Go slice is element k + 1.
FirstBytes == {0, 10, 255}
VersionBytes == {0, 15, 74, 128, 240, 255}
VariantBytes == {0, 63, 64, 128, 191, 192, 255}
LastBytes == {0, 171}
OtherByte(k) == (k * 37 + 5) % 256
RandomBytes ==
  {[k \in 1..16 |-> CASE k = 1 -> a [] k = 7 -> b [] k = 9 -> c
                       [] k = 16 -> d [] OTHER -> OtherByte(k)] :
     a \in FirstBytes, b \in VersionBytes, c \in VariantBytes,
     d \in LastBytes}

RECURSIVE BitAnd(_, _)
\* a & b on bytes
BitAnd(a, b) ==
  IF a = 0 \/ b = 0 THEN 0
  ELSE (a % 2) * (b % 2) + 2 * BitAnd(a \div 2, b \div 2)

RECURSIVE BitOr(_, _)
\* a | b on bytes
BitOr(a, b) ==
  IF a = 0 THEN b
  ELSE IF b = 0 THEN a
  ELSE (IF a % 2 = 1 \/ b % 2 = 1 THEN 1 ELSE 0) +
       2 * BitOr(a \div 2, b \div 2)

SetVersion_nomask(b) == BitOr(b, 64)

\* (bs[6] & 0x0f) | 0x40
SetVersion(b) == BitOr(BitAnd(b, 15), 64)

\* (bs[8] & 0x3f) | 0x80
SetVariant(b) == BitOr(BitAnd(b, 63), 128)

HexDigits ==
  <<"0", "1", "2", "3", "4", "5", "6", "7", "8", "9", "a", "b", "c", "d",
    "e", "f">>

\* The verb %x of fmt for one byte of a byte slice: two lower-case digits
HexByte(b) == <<HexDigits[(b \div 16) + 1], HexDigits[(b % 16) + 1]>>

RECURSIVE HexBytes(_)
\* The verb %x of fmt for a byte slice, as a sequence of characters
HexBytes(slice) ==
  IF slice = <<>> THEN <<>>
  ELSE HexByte(Head(slice)) \o HexBytes(Tail(slice))

\* bs[lo:hi] of Go
Slice(bs, lo, hi) == SubSeq(bs, lo + 1, hi)

\* The string NewUUID returns when rand.Read filled bs with rnd
NewUUID(rnd) ==
  LET bs6 == [rnd EXCEPT ![7] = SetVersion(@)]
      bs == [bs6 EXCEPT ![9] = SetVariant(@)]
  IN HexBytes(Slice(bs, 0, 4)) \o <<"-">> \o
     HexBytes(Slice(bs, 4, 6)) \o <<"-">> \o
     HexBytes(Slice(bs, 6, 8)) \o <<"-">> \o
     HexBytes(Slice(bs, 8, 10)) \o <<"-">> \o
     HexBytes(Slice(bs, 10, 16))

\* A call of NewUUID
CallNewUUID ==
  /\ pc = "uuid"
  /\ uuid = <<>>
  /\ uuid' = NewUUID(random)
  /\ UNCHANGED <<fleetVars, runVars, checkVars, cdnVars, outstanding, flags,
                 startExit, random>>

\* ------------------------------------------------------------------------
\* init() before it makes the fleet
\* ------------------------------------------------------------------------

\* Values of -vendor, and of -backendCert and -backendKey: not given, a
\* pair that loads, a pair that does not
Vendors == {"", "cloudflare", "fastly", "akamai"}
CertOptions == {"none", "ok", "bad"}

\* What flag.Parse can read from the command line
FlagSets ==
  [usage : BOOLEAN, edgeHost : {"", EdgeHost}, vendor : Vendors,
   certs : CertOptions]

FlagsExit_nohost(f) ==
  IF f.usage THEN 0
  ELSE IF f.vendor \notin {"cloudflare", "fastly", ""} THEN 1
  ELSE IF f.certs = "bad" THEN 1
  ELSE NoExit

\* The status init() ends the process with before it makes the fleet:
\* os.Exit(0) after -usage, os.Exit(1) without -edgeHost, log.Fatalf for an
\* unknown vendor, log.Fatal for a certificate that does not load
FlagsExit(f) ==
  IF f.usage THEN 0
  ELSE IF f.edgeHost = "" THEN 1
  ELSE IF f.vendor \notin {"cloudflare", "fastly", ""} THEN 1
  ELSE IF f.certs = "bad" THEN 1
  ELSE NoExit

\* init() up to the construction of the fleet
StartUp ==
  /\ pc = "flags"
  /\ startExit' = FlagsExit(flags)
  /\ pc' = IF FlagsExit(flags) = NoExit THEN "init" ELSE "exited"
  /\ UNCHANGED <<server, handler, port, edgeHealthy, served, lastResp,
                 resetVars, callVars, lifeVars, dialVars, runVars, checkVars,
                 cdnVars, outstanding, flags, random, uuid>>

\* ------------------------------------------------------------------------
\* What the tests do between two ResetBackends
\* ------------------------------------------------------------------------

\* The first thing a test does after ResetBackends returned ends the record
\* kept of that call.
CallOver ==
  /\ entryStarted' = {}
  /\ startLog' = <<>>
  /\ stopLog' = <<>>
  /\ confirmed' = {}
  /\ polled' = FALSE
  /\ consec' = FALSE
  /\ misuse' = {}
  /\ afterReset' = FALSE

TestSwitchHandler(b, h) ==
  /\ pc = "test"
  /\ handler' = SwitchHandler(b, h, handler)
  /\ CallOver
  /\ UNCHANGED <<port, server, pc, edgeHealthy, served, lastResp, resetVars,
                 retFleet, prevRetFleet, lifeVars,
                 dialVars, laterVars>>

TestStop(b) ==
  /\ pc = "test"
  /\ IsStarted(b)
  /\ server' = Stop(b, server)
  /\ CallOver
  /\ UNCHANGED <<port, handler, pc, edgeHealthy, served, lastResp, resetVars,
                 retFleet, prevRetFleet, lifeVars,
                 dialVars, laterVars>>

\* A fresh GET through the edge (NewUniqueEdgeGET, client.RoundTrip)
TestEdgeGET ==
  /\ pc = "test"
  /\ LET w == EdgeWalk(1, edgeHealthy, <<>>)
     IN /\ lastResp' = [EdgeAnswer(w.hops) EXCEPT !.kind =
                          IF afterReset THEN "first" ELSE "resp"]
        /\ served' = w.hops
        /\ edgeHealthy' = w.health
  /\ CallOver
  /\ UNCHANGED <<port, server, handler, pc, resetVars, retFleet, prevRetFleet,
                 lifeVars,
                 dialVars, laterVars>>

\* ------------------------------------------------------------------------
\* A test that drives backends directly, without the edge
\* (TestHelpersCDNBackendServer...: backend.Start, backend.Stop,
\* SwitchHandler, requests to backend.server.URL)
\* ------------------------------------------------------------------------

UnitStart(b) ==
  /\ pc = "unit"
  /\ ~IsStarted(b)
  /\ handler' = ResetHandler(b, handler)
  /\ \E k \in KernelPorts : port' = BindPort(b, k, port)
  /\ server' = Start(b, server)
  /\ UNCHANGED <<pc, edgeHealthy, served, lastResp, resetVars, histVars>>

UnitStop(b) ==
  /\ pc = "unit"
  /\ IsStarted(b)
  /\ server' = Stop(b, server)
  /\ UNCHANGED <<port, handler, pc, edgeHealthy, served, lastResp, resetVars,
                 histVars>>

UnitSwitchHandler(b, h) ==
  /\ pc = "unit"
  /\ handler' = SwitchHandler(b, h, handler)
  /\ UNCHANGED <<port, server, pc, edgeHealthy, served, lastResp, resetVars,
                 histVars>>

UnitResetHandler(b) ==
  /\ pc = "unit"
  /\ handler' = ResetHandler(b, handler)
  /\ UNCHANGED <<port, server, pc, edgeHealthy, served, lastResp, resetVars,
                 histVars>>

\* A request sent straight to a started backend (backend.server.URL)
UnitRequest(b, method, path) ==
  /\ pc = "unit"
  /\ IsStarted(b)
  /\ served' = <<ServeHTTP(b, method, path)>>
  /\ lastResp' = ClientResp(ServeHTTP(b, method, path))
  /\ UNCHANGED <<port, server, handler, pc, edgeHealthy, resetVars, histVars>>

\* ------------------------------------------------------------------------
\* A test that creates backends of its own and starts and stops them
\* (TestHelpersCDNBackendServerRandomPort, TestHelpersCDNServeStop), with a
\* record of the calls made on each
\* ------------------------------------------------------------------------

SoloStart(b) ==
  /\ pc = "solo"
  /\ ~IsStarted(b)
  /\ handler' = ResetHandler(b, handler)
  /\ \E k \in KernelPorts :
       /\ port' = BindPort(b, k, port)
       /\ boundPort' = [boundPort EXCEPT ![b] = ListenPort(b, k, port)]
  /\ server' = Start(b, server)
  /\ firstPort' = IF lastLife[b] = "none"
                    THEN [firstPort EXCEPT ![b] = port'[b]] ELSE firstPort
  /\ lastCall' = [lastCall EXCEPT ![b] = "Start"]
  /\ lastLife' = [lastLife EXCEPT ![b] = "Start"]
  /\ UNCHANGED <<pc, edgeHealthy, served, lastResp, resetVars, callVars, dialVars, laterVars,
                 created, stoppedWith, lastConn>>

SoloStop(b) ==
  /\ pc = "solo"
  /\ IsStarted(b)
  /\ server' = Stop(b, server)
  /\ stoppedWith' = [stoppedWith EXCEPT ![b] = handler[b]]
  /\ lastCall' = [lastCall EXCEPT ![b] = "Stop"]
  /\ lastLife' = [lastLife EXCEPT ![b] = "Stop"]
  /\ UNCHANGED <<handler, port, pc, edgeHealthy, served, lastResp, resetVars,
                 callVars, dialVars, laterVars, created, firstPort, boundPort, lastConn>>

SoloSwitchHandler(b, h) ==
  /\ pc = "solo"
  /\ handler' = SwitchHandler(b, h, handler)
  /\ lastCall' = [lastCall EXCEPT ![b] = "SwitchHandler"]
  /\ UNCHANGED <<server, port, pc, edgeHealthy, served, lastResp, resetVars,
                 callVars, dialVars, laterVars, created, lastLife, stoppedWith, firstPort, boundPort,
                 lastConn>>

SoloResetHandler(b) ==
  /\ pc = "solo"
  /\ handler' = ResetHandler(b, handler)
  /\ lastCall' = [lastCall EXCEPT ![b] = "ResetHandler"]
  /\ UNCHANGED <<server, port, pc, edgeHealthy, served, lastResp, resetVars,
                 callVars, dialVars, laterVars, created, lastLife, stoppedWith, firstPort, boundPort,
                 lastConn>>

\* A request sent straight to the port of a backend, started or not
SoloRequest(b, method, path) ==
  /\ pc = "solo"
  /\ IF Connect(b) = "accepted"
       THEN /\ served' = <<ServeHTTP(b, method, path)>>
            /\ lastResp' = ClientResp(ServeHTTP(b, method, path))
       ELSE /\ served' = <<>>
            /\ lastResp' = TransportError
  /\ lastConn' = [backend |-> b, after |-> lastLife[b]]
  /\ UNCHANGED <<server, handler, port, pc, edgeHealthy, resetVars, callVars, dialVars, laterVars,
                 created, lastCall, lastLife, stoppedWith, firstPort, boundPort>>

\* ------------------------------------------------------------------------
\* The Dial function of the client: HardCachedHostDial and
\* CachedHostIpAddress, CachedHostLookup.Dial and lookup
\* ------------------------------------------------------------------------

Resolves_always(cache) == TRUE

\* lookup calls net.LookupHost only when nothing is cached
Resolves(cache) == cache = ""

\* What lookup returns and leaves in the cache, first being ipAddresses[0]
\* of net.LookupHost when it is called
lookup(cache, first) == IF Resolves(cache) THEN first ELSE cache

\* The host part of the address handed to net.Dial
DialAddr(host, cache, first) ==
  IF host # EdgeHost THEN host ELSE lookup(cache, first)

\* One connection opened by the client for a request to host:p
Dial(host, p) ==
  /\ pc = "dial"
  /\ dials < MaxDials
  /\ dials' = dials + 1
  /\ \E first \in EdgeIPs :
       /\ dialed' = [host |-> host, port |-> p,
                     addr |-> DialAddr(host, hardCachedIP, first)]
       /\ IF host # EdgeHost
            THEN UNCHANGED <<hardCachedIP, lookups, firstIP>>
            ELSE /\ hardCachedIP' = lookup(hardCachedIP, first)
                 /\ lookups' = IF Resolves(hardCachedIP) THEN lookups + 1
                               ELSE lookups
                 /\ firstIP' = IF firstIP = "" THEN dialed'.addr ELSE firstIP
  /\ UNCHANGED <<server, handler, port, pc, edgeHealthy, served, lastResp,
                 resetVars, callVars, lifeVars, laterVars>>

\* net.LookupHost fails for the edge host: log.Fatal
DialLookupFails ==
  /\ pc = "dial"
  /\ dials < MaxDials
  /\ Resolves(hardCachedIP)
  /\ lookups' = lookups + 1
  /\ pc' = "exited"
  /\ UNCHANGED <<server, handler, port, edgeHealthy, served, lastResp,
                 resetVars, callVars, lifeVars, laterVars, hardCachedIP, dials, dialed,
                 firstIP>>

\* ------------------------------------------------------------------------
\* The test functions and their testing.T: RoundTripCheckError
\* ------------------------------------------------------------------------

\* A testing.T before its test function runs
NewT == [state |-> "idle", failed |-> FALSE, slow |-> FALSE,
         asserted |-> FALSE, errors |-> 0, roundTrips |-> 0, checked |-> 0]

NoReturn == [test |-> 0, outcome |-> "none", value |-> "none"]

\* t.Error and t.Errorf: the test is marked failed and goes on
Error(t) == [t EXCEPT !.failed = TRUE]

Fatal_continue(t) == [t EXCEPT !.failed = TRUE]

\* t.Fatal and t.Fatalf: the test is marked failed and its goroutine exits
Fatal(t) == [t EXCEPT !.failed = TRUE, !.state = "done"]

\* The testing.T after RoundTripCheckError made its one client.RoundTrip,
\* which took duration and gave outcome
CheckError(t, duration, outcome) ==
  LET sent == [t EXCEPT !.checked = @ + 1, !.roundTrips = @ + 1]
      timed == IF duration > requestSlowThreshold
                 THEN Error([sent EXCEPT !.slow = TRUE])
                 ELSE sent
  IN IF outcome = "err" THEN Fatal([timed EXCEPT !.errors = @ + 1])
     ELSE timed

\* The test runner calls the next test function
TestRun(t) ==
  /\ pc = "run"
  /\ tests[t].state = "idle"
  /\ \A u \in 1..(t - 1) : tests[u].state = "done"
  /\ tests' = [tests EXCEPT ![t].state = "running"]
  /\ UNCHANGED <<fleetVars, returned, checkVars, cdnVars, auxVars>>

\* Test function t calls RoundTripCheckError
RoundTripCheckError(t, duration, outcome) ==
  /\ pc = "run"
  /\ tests[t].state = "running"
  /\ tests[t].checked < MaxRoundTrips
  /\ tests' = [tests EXCEPT ![t] = CheckError(@, duration, outcome)]
  /\ returned' = [test |-> t, outcome |-> outcome,
                  value |-> IF tests'[t].state = "done" THEN "none"
                            ELSE IF outcome = "err" THEN "nil" ELSE "resp"]
  /\ UNCHANGED <<fleetVars, checkVars, cdnVars, auxVars>>

\* An assertion of test function t about a response does not hold
TestAssertFails(t) ==
  /\ pc = "run"
  /\ tests[t].state = "running"
  /\ tests' = [tests EXCEPT ![t] = Error([@ EXCEPT !.asserted = TRUE])]
  /\ UNCHANGED <<fleetVars, returned, checkVars, cdnVars, auxVars>>

\* Test function t returns
TestReturn(t) ==
  /\ pc = "run"
  /\ tests[t].state = "running"
  /\ tests' = [tests EXCEPT ![t].state = "done"]
  /\ UNCHANGED <<fleetVars, returned, checkVars, cdnVars, auxVars>>

\* ------------------------------------------------------------------------
\* The assertion helpers: testRequestsCachedIndefinite,
\* testRequestsCachedDuration, testThreeRequestsNotCached and
\* testResponseNotManipulated, run by test 1 against origin behind the edge
\* ------------------------------------------------------------------------

NoCheck == [kind |-> "none", state |-> "idle", ttl |-> 0, ext |-> "",
            requestCount |-> 0, requestsReceivedCount |-> 0,
            originBodies |-> <<>>, bodies |-> <<>>, modes |-> <<>>,
            slept |-> <<>>, stored |-> {}, probes |-> 0]

\* t.Errorf of an assertion of a helper
Errorf(t) == Error([t EXCEPT !.asserted = TRUE])

\* What the edge does with one request for the URL of the check: fetch the
\* response from origin ("miss"), serve a response it stored for the URL
\* ("hit"), serve a stored response and fetch a new one ("revalidate"), or
\* answer by itself ("error")
EdgeModes == {"miss", "hit", "revalidate", "error"}

\* The body of a response the edge makes up itself
EdgeOwnBody == "edge error page"

EdgeForwards(mode) == mode \in {"miss", "revalidate"}

\* The bodies the edge can serve in a mode, originBody being what origin
\* writes if asked now and stored what it wrote for the URL before
EdgeBodies(mode, stored, originBody) ==
  CASE mode = "miss" -> {originBody}
    [] mode = "error" -> {EdgeOwnBody}
    [] OTHER -> stored

\* The round trip as the helper sees it: the transport returns a response or
\* an error, or reading the body of the response fails
Outcomes == {"resp", "err", "readerr"}

\* The testing.T after RoundTripCheckError and ioutil.ReadAll
ReadResponse(t, duration, outcome) ==
  IF outcome = "readerr" THEN Fatal(CheckError(t, duration, "resp"))
  ELSE CheckError(t, duration, outcome)

\* testRequestsCachedDuration: time.Duration arithmetic of the buffer
respTTLWithBuffer(respTTL) == respTTL + (respTTL \div 4)

SleepBefore_never(respTTL, requestCount) == 0

\* time.Sleep before a request of testRequestsCachedDuration
SleepBefore(respTTL, requestCount) ==
  IF respTTL > 0 /\ requestCount = 3 THEN respTTLWithBuffer(respTTL) ELSE 0

\* expectedBody of testRequestsCachedDuration
ExpectedCachedBody(respTTL, requestCount) ==
  IF respTTL > 0 /\ requestCount > 2 THEN responseNotCached
  ELSE responseCached

requestsExpectedCount(respTTL) == IF respTTL > 0 THEN 2 ELSE 1

CountWrong_never(received, respTTL) == FALSE

\* The last assertion of testRequestsCachedDuration
CountWrong(received, respTTL) == received # requestsExpectedCount(respTTL)

\* The handler testRequestsCachedDuration gives origin
CachedHandlerBody(requestsReceivedCount) ==
  IF requestsReceivedCount = 0 THEN responseCached ELSE responseNotCached

ExpectedNotCachedBody_first(requestCount) == responseBodies[1]

\* expectedBody of testThreeRequestsNotCached
ExpectedNotCachedBody(requestCount) == responseBodies[requestCount]

\* The handler testThreeRequestsNotCached gives origin
NotCachedHandlerBody(requestsReceivedCount) ==
  IF requestsReceivedCount < Len(responseBodies)
    THEN responseBodies[requestsReceivedCount + 1]
    ELSE "index out of range"

\* mime.TypeByExtension(filepath.Ext(fixtureFile))
TypeByExtension(ext) ==
  CASE ext = ".html" -> "text/html; charset=utf-8"
    [] ext = ".png" -> "image/png"
    [] ext = ".txt" -> "text/plain; charset=utf-8"
    [] OTHER -> ""

\* strings.Contains(contentType, "text/plain")
ContainsTextPlain(contentType) ==
  contentType \in {"text/plain", "text/plain; charset=utf-8"}

\* The content type testResponseNotManipulated refuses to test with
UnusableType(contentType) ==
  contentType = "" \/ ContainsTextPlain(contentType)

Manipulated_length(body, fixtureData) == Len(body) # Len(fixtureData)

\* !bytes.Equal(body, fixtureData)
Manipulated(body, fixtureData) == body # fixtureData

\* One request of the loop of a caching check, which takes d and ends as o,
\* and the assertions on its response; sleep is slept before it, expected
\* is the body asserted,
\* originBody what the handler writes if called, last the last iteration
\* and countWrong the assertion that follows the loop
CheckRequest(mode, body, d, o, sleep, expected, originBody, last, countWrong) ==
  LET fatal == o # "resp"
      read == ReadResponse(tests[1], d, o)
      compared == IF ~fatal /\ body # expected THEN Errorf(read) ELSE read
      counted == IF ~fatal /\ last /\ countWrong THEN Errorf(compared)
                 ELSE compared
      calls == IF EdgeForwards(mode)
                 THEN ServeHTTP(1, "GET", "/p").handlerCalls ELSE 0
  IN /\ tests' = [tests EXCEPT ![1] = counted]
     /\ check' = [check EXCEPT
          !.state = IF fatal THEN "aborted" ELSE IF last THEN "done" ELSE @,
          !.requestCount = @ + 1,
          !.requestsReceivedCount = @ + calls,
          !.originBodies = IF calls > 0 THEN Append(@, originBody) ELSE @,
          !.bodies = IF fatal THEN @ ELSE Append(@, body),
          !.modes = Append(@, mode),
          !.slept = Append(@, sleep),
          !.stored = IF calls > 0 THEN @ \cup {originBody} ELSE @]
     /\ UNCHANGED <<fleetVars, returned, cdnVars, auxVars>>

\* Test 1 calls testRequestsCachedDuration with respTTL, or
\* testRequestsCachedIndefinite (respTTL = 0), up to the loop
CachedDurationStart(respTTL) ==
  /\ pc = "check"
  /\ check.state = "idle"
  /\ check' = [check EXCEPT !.kind = "duration", !.state = "running",
                            !.ttl = respTTL]
  /\ handler' = SwitchHandler(1, "hCached", handler)
  /\ tests' = [tests EXCEPT ![1].state = "running"]
  /\ UNCHANGED <<server, port, pc, edgeHealthy, served, lastResp, resetVars,
                 callVars, lifeVars, dialVars, returned, cdnVars, auxVars>>

\* One iteration of the loop of testRequestsCachedDuration and, after the
\* third, the assertion on requestsReceivedCount
CachedDurationRequest(mode, body, duration, outcome) ==
  /\ pc = "check"
  /\ check.kind = "duration"
  /\ check.state = "running"
  /\ body \in EdgeBodies(mode, check.stored,
                         CachedHandlerBody(check.requestsReceivedCount))
  /\ LET requestCount == check.requestCount + 1
         originBody == CachedHandlerBody(check.requestsReceivedCount)
         received == check.requestsReceivedCount +
                       (IF EdgeForwards(mode) THEN 1 ELSE 0)
     IN CheckRequest(mode, body, duration, outcome,
                     SleepBefore(check.ttl, requestCount),
                     ExpectedCachedBody(check.ttl, requestCount),
                     originBody, requestCount = 3,
                     CountWrong(received, check.ttl))

\* Test 1 calls testThreeRequestsNotCached, up to the loop
NotCachedStart ==
  /\ pc = "check"
  /\ check.state = "idle"
  /\ check' = [check EXCEPT !.kind = "notcached", !.state = "running"]
  /\ handler' = SwitchHandler(1, "hNotCached", handler)
  /\ tests' = [tests EXCEPT ![1].state = "running"]
  /\ UNCHANGED <<server, port, pc, edgeHealthy, served, lastResp, resetVars,
                 callVars, lifeVars, dialVars, returned, cdnVars, auxVars>>

\* One iteration of the loop of testThreeRequestsNotCached
NotCachedRequest(mode, body, duration, outcome) ==
  /\ pc = "check"
  /\ check.kind = "notcached"
  /\ check.state = "running"
  /\ body \in EdgeBodies(mode, check.stored,
                         NotCachedHandlerBody(check.requestsReceivedCount))
  /\ LET requestCount == check.requestCount + 1
     IN CheckRequest(mode, body, duration, outcome, 0,
                     ExpectedNotCachedBody(requestCount),
                     NotCachedHandlerBody(check.requestsReceivedCount),
                     requestCount = 3, FALSE)

\* A health probe of the edge (HEAD /) reaches origin while the handler of a
\* caching check is installed
CheckProbe ==
  /\ pc = "check"
  /\ check.kind \in {"duration", "notcached"}
  /\ check.state = "running"
  /\ check.probes < MaxProbes
  /\ LET calls == ServeHTTP(1, "HEAD", "/").handlerCalls
         originBody == IF check.kind = "notcached"
                         THEN NotCachedHandlerBody(check.requestsReceivedCount)
                         ELSE CachedHandlerBody(check.requestsReceivedCount)
     IN check' = [check EXCEPT
          !.probes = @ + 1,
          !.requestsReceivedCount = @ + calls,
          !.originBodies = IF calls > 0 THEN Append(@, originBody) ELSE @,
          !.stored = IF calls > 0 THEN @ \cup {originBody} ELSE @]
  /\ UNCHANGED <<fleetVars, runVars, cdnVars, auxVars>>

\* Test 1 calls testResponseNotManipulated with a fixture file of extension
\* ext holding fixtureData, up to the request; the file may not be readable
NotManipulatedStart(ext, fixtureData, readable) ==
  /\ pc = "check"
  /\ check.state = "idle"
  /\ LET usable == readable /\ ~UnusableType(TypeByExtension(ext))
     IN /\ check' = [check EXCEPT
             !.kind = "fixture", !.ext = ext,
             !.state = IF usable THEN "running" ELSE "aborted",
             !.originBodies = IF readable THEN <<fixtureData>> ELSE <<>>]
        /\ handler' = IF usable THEN SwitchHandler(1, "hFixture", handler)
                      ELSE handler
        /\ tests' = [tests EXCEPT ![1] =
             IF usable THEN [@ EXCEPT !.state = "running"]
             ELSE Fatal([@ EXCEPT !.asserted = TRUE])]
  /\ UNCHANGED <<server, port, pc, edgeHealthy, served, lastResp, resetVars,
                 callVars, lifeVars, dialVars, returned, cdnVars, auxVars>>

\* The request of testResponseNotManipulated and the comparison of the body
\* the edge returned, which is the fixture or any other byte sequence
NotManipulatedRequest(body, duration, outcome) ==
  /\ pc = "check"
  /\ check.kind = "fixture"
  /\ check.state = "running"
  /\ LET fatal == outcome # "resp"
         read == ReadResponse(tests[1], duration, outcome)
     IN /\ tests' = [tests EXCEPT ![1] =
             IF ~fatal /\ Manipulated(body, check.originBodies[1])
               THEN Errorf(read) ELSE read]
        /\ check' = [check EXCEPT
             !.state = IF fatal THEN "aborted" ELSE "done",
             !.requestCount = @ + 1,
             !.bodies = IF fatal THEN @ ELSE <<body>>]
  /\ UNCHANGED <<fleetVars, returned, cdnVars, auxVars>>

\* ------------------------------------------------------------------------
\* The tests of the edge's failover and PURGE handling
\* (TestFailover..., TestMiscRestrictPurgeRequests) and the edge's handling
\* of their requests
\* ------------------------------------------------------------------------

\* Nothing stored for a URL
NoEntry == [status |-> 0, body |-> "", BackendName |-> ""]

\* The response the edge gives the client after the walk, with its body
EdgeResponse(hops) ==
  IF hops = <<>>
    THEN [status |-> EdgeErrorPage.status, body |-> EdgeOwnBody,
          BackendName |-> ""]
    ELSE LET r == hops[Len(hops)]
         IN [status |-> r.status, body |-> HandlerBody(r.handledBy, r.backend),
             BackendName |-> r.BackendName]

\* The edge's handling of one request of a client that is not on the PURGE
\* whitelist: PURGE is refused, a GET is answered from the cache if the URL
\* is stored and from the backends otherwise; an answer of a backend that is
\* not a 5xx is stored
EdgeHandle(method, url, stored, health) ==
  IF method = "PURGE"
    THEN [resp |-> [status |-> 403, body |-> "", BackendName |-> ""],
          hops |-> <<>>, cache |-> stored, health |-> health, hit |-> FALSE]
  ELSE IF stored[url] # NoEntry
    THEN [resp |-> stored[url], hops |-> <<>>, cache |-> stored,
          health |-> health, hit |-> TRUE]
  ELSE LET w == EdgeWalk(1, health, <<>>)
           resp == EdgeResponse(w.hops)
       IN [resp |-> resp, hops |-> w.hops,
           cache |-> IF w.hops # <<>> /\ ~Is5xx(resp.status)
                       THEN [stored EXCEPT ![url] = resp] ELSE stored,
           health |-> w.health, hit |-> FALSE]

\* The entry of edgeLog for a request the edge handled as e
LogEntry(method, url, health, e) ==
  [method |-> method, url |-> url,
   healthy |-> \A b \in Backends : health[b],
   hit |-> e.hit, hops |-> e.hops, resp |-> e.resp]

\* Handlers the failover tests give a backend: only origin gets the one
\* with the No-Fallback header
FailoverHandlers(b) ==
  IF b = 1 THEN {"h503", "h503nf", "hTicket"} ELSE {"h503", "hTicket"}

\* A failover test stops a backend before its request
EdgeTestStop(b) ==
  /\ pc = "edge"
  /\ scenario \in {"none", "failover"}
  /\ edgeLog = <<>>
  /\ IsStarted(b)
  /\ server' = Stop(b, server)
  /\ scenario' = "failover"
  /\ UNCHANGED <<handler, port, pc, edgeHealthy, served, lastResp, resetVars,
                 callVars, lifeVars, dialVars, runVars, checkVars,
                 edgeCache, edgeLog, auxVars>>

\* A failover test switches the handler of a backend before its request
EdgeTestSwitchHandler(b, h) ==
  /\ pc = "edge"
  /\ scenario \in {"none", "failover"}
  /\ edgeLog = <<>>
  /\ handler' = SwitchHandler(b, h, handler)
  /\ handler' # handler
  /\ scenario' = "failover"
  /\ UNCHANGED <<server, port, pc, edgeHealthy, served, lastResp, resetVars,
                 callVars, lifeVars, dialVars, runVars, checkVars,
                 edgeCache, edgeLog, auxVars>>

\* A failover test sends a GET for a new unique URL through the edge
EdgeTestGET ==
  /\ pc = "edge"
  /\ scenario \in {"none", "failover"}
  /\ Len(edgeLog) < MaxEdgeRequests
  /\ LET url == Len(edgeLog) + 1
         e == EdgeHandle("GET", url, edgeCache, edgeHealthy)
     IN /\ edgeLog' = Append(edgeLog, LogEntry("GET", url, edgeHealthy, e))
        /\ edgeCache' = e.cache
        /\ edgeHealthy' = e.health
        /\ served' = e.hops
  /\ scenario' = "failover"
  /\ UNCHANGED <<server, handler, port, pc, lastResp, resetVars, callVars,
                 lifeVars, dialVars, runVars, checkVars, auxVars>>

PurgeURL_fresh(requestCount) == requestCount

\* The URL of the requests of TestMiscRestrictPurgeRequests: req is made
\* once, before the loop
PurgeURL(requestCount) == 1

\* req.Method, expectedStatus, expectedBody and the handler origin is given
\* in each iteration of TestMiscRestrictPurgeRequests
PurgeCase(requestCount) ==
  CASE requestCount = 1 ->
         [method |-> "GET", status |-> 200,
          body |-> "this should not be purged", handler |-> "hKeep"]
    [] requestCount = 2 ->
         [method |-> "PURGE", status |-> 403, body |-> "",
          handler |-> "hName"]
    [] OTHER ->
         [method |-> "GET", status |-> 200,
          body |-> "this should not be purged", handler |-> "hName"]

\* TestMiscRestrictPurgeRequests, which test 1 runs right after
\* ResetBackends: the SwitchHandler of iteration 1 or 2 of its loop
PurgeTestSwitch ==
  /\ pc = "edge"
  /\ scenario \in {"none", "purge"}
  /\ Len(edgeLog) < 3
  /\ handler[1] # PurgeCase(Len(edgeLog) + 1).handler
  /\ handler' = SwitchHandler(1, PurgeCase(Len(edgeLog) + 1).handler, handler)
  /\ tests' = [tests EXCEPT ![1].state = "running"]
  /\ scenario' = "purge"
  /\ UNCHANGED <<server, port, pc, edgeHealthy, served, lastResp, resetVars,
                 callVars, lifeVars, dialVars, returned, checkVars,
                 edgeCache, edgeLog, auxVars>>

\* The request of an iteration of the loop of TestMiscRestrictPurgeRequests
\* and the assertions on its response
PurgeTestRequest ==
  /\ pc = "edge"
  /\ scenario = "purge"
  /\ Len(edgeLog) < 3
  /\ handler[1] = PurgeCase(Len(edgeLog) + 1).handler
  /\ LET requestCount == Len(edgeLog) + 1
         c == PurgeCase(requestCount)
         url == PurgeURL(requestCount)
         e == EdgeHandle(c.method, url, edgeCache, edgeHealthy)
         reached == \E j \in 1..Len(e.hops) :
                      /\ e.hops[j].backend = 1
                      /\ e.hops[j].handledBy = "hName"
         wrong == \/ e.resp.status # c.status
                  \/ c.body # "" /\ e.resp.body # c.body
                  \/ reached
     IN /\ edgeLog' = Append(edgeLog, LogEntry(c.method, url, edgeHealthy, e))
        /\ edgeCache' = e.cache
        /\ edgeHealthy' = e.health
        /\ served' = e.hops
        /\ tests' = [tests EXCEPT ![1] = IF wrong THEN Errorf(@) ELSE @]
  /\ UNCHANGED <<server, handler, port, pc, lastResp, resetVars, callVars,
                 lifeVars, dialVars, returned, checkVars, scenario, auxVars>>

\* ------------------------------------------------------------------------

\* No test function has run
RunIdle ==
  /\ tests = [t \in Tests |-> NewT]
  /\ returned = NoReturn

\* No flag has been read, no request of waitForBackend is on its way and
\* NewUUID has not been called
AuxIdle ==
  /\ outstanding = 0
  /\ flags = NoFlags
  /\ startExit = NoExit
  /\ random = <<>>
  /\ uuid = <<>>

\* No variable of the test functions has been touched
LaterIdle ==
  /\ AuxIdle
  /\ RunIdle
  /\ check = NoCheck
  /\ scenario = "none"
  /\ edgeCache = [u \in EdgeURLs |-> NoEntry]
  /\ edgeLog = <<>>

\* The fleet as constructed and everything of ResetBackends, of the
\* lifecycle test and of the Dial function at rest
FleetIdle ==
  /\ i = 0
  /\ remainingBackendsStopped = FALSE
  /\ try = 0
  /\ err = "nil"
  /\ urls = 0
  /\ requests = 0
  /\ lastSleep = 0
  /\ edgeHealthy = [b \in Backends |-> TRUE]
  /\ served = <<>>
  /\ lastResp = NoResp
  /\ entryStarted = {}
  /\ startLog = <<>>
  /\ stopLog = <<>>
  /\ confirmed = {}
  /\ polled = FALSE
  /\ afterReset = FALSE
  /\ consec = FALSE
  /\ misuse = {}
  /\ retFleet = [server |-> server, handler |-> handler]
  /\ prevRetFleet = [server |-> server, handler |-> handler]
  /\ port = ConfiguredPort
  /\ created = ConfiguredPort
  /\ lastCall = [b \in Backends |-> "none"]
  /\ lastLife = [b \in Backends |-> "none"]
  /\ stoppedWith = [b \in Backends |-> "none"]
  /\ firstPort = [b \in Backends |-> 0]
  /\ boundPort = [b \in Backends |-> 0]
  /\ lastConn = NoConn
  /\ hardCachedIP = ""
  /\ lookups = 0
  /\ dials = 0
  /\ dialed = NoDial
  /\ firstIP = ""

Init ==
  /\ server = [b \in Backends |-> FALSE]
  /\ handler = [b \in Backends |-> "nil"]
  /\ pc = "init"
  /\ i = 0
  /\ remainingBackendsStopped = FALSE
  /\ try = 0
  /\ err = "nil"
  /\ urls = 0
  /\ requests = 0
  /\ lastSleep = 0
  /\ edgeHealthy \in [Backends -> BOOLEAN]
  /\ served = <<>>
  /\ lastResp = NoResp
  /\ entryStarted = {}
  /\ startLog = <<>>
  /\ stopLog = <<>>
  /\ confirmed = {}
  /\ polled = FALSE
  /\ afterReset = FALSE
  /\ consec = FALSE
  /\ misuse = {}
  /\ retFleet = [server |-> server, handler |-> handler]
  /\ prevRetFleet = [server |-> server, handler |-> handler]
  /\ port = ConfiguredPort
  /\ created = ConfiguredPort
  /\ lastCall = [b \in Backends |-> "none"]
  /\ lastLife = [b \in Backends |-> "none"]
  /\ stoppedWith = [b \in Backends |-> "none"]
  /\ firstPort = [b \in Backends |-> 0]
  /\ boundPort = [b \in Backends |-> 0]
  /\ lastConn = NoConn
  /\ hardCachedIP = ""
  /\ lookups = 0
  /\ dials = 0
  /\ dialed = NoDial
  /\ firstIP = ""
  /\ LaterIdle

Next ==
  \/ ResetBackendsCall
  \/ ResetStarted
  \/ ResetNotStarted
  \/ WaitAttempt
  \/ WaitExhausted
  \/ ResetReturn
  \/ \E b \in Backends : EdgeProbe(b)
  \/ \E b \in Backends, h \in Handlers : TestSwitchHandler(b, h)
  \/ \E b \in Backends : TestStop(b)
  \/ TestEdgeGET

Spec == Init /\ [][Next]_vars

\* The steps of ResetBackends and of the waitForBackend it calls
ResetStep ==
  \/ ResetStarted
  \/ ResetNotStarted
  \/ WaitAttempt
  \/ WaitExhausted
  \/ ResetReturn

\* The test process is sequential and every call it makes returns (a request
\* to the edge returns by ResponseHeaderTimeout at the latest): a call of
\* ResetBackends that can take a step takes it.
\* NewUUID is about to be called and rand.Read gives any of RandomBytes
InitUUID ==
  /\ pc = "uuid"
  /\ server = [b \in Backends |-> TRUE]
  /\ handler = [b \in Backends |-> "default"]
  /\ FleetIdle
  /\ RunIdle
  /\ check = NoCheck
  /\ scenario = "none"
  /\ edgeCache = [u \in EdgeURLs |-> NoEntry]
  /\ edgeLog = <<>>
  /\ outstanding = 0
  /\ flags = NoFlags
  /\ startExit = NoExit
  /\ random \in RandomBytes
  /\ uuid = <<>>

NextUUID == CallNewUUID

SpecUUID == InitUUID /\ [][NextUUID]_vars

\* The command lines init() is started with
InitStart ==
  /\ server = [b \in Backends |-> FALSE]
  /\ handler = [b \in Backends |-> "nil"]
  /\ pc = "flags"
  /\ i = 0
  /\ remainingBackendsStopped = FALSE
  /\ try = 0
  /\ err = "nil"
  /\ urls = 0
  /\ requests = 0
  /\ lastSleep = 0
  /\ edgeHealthy \in [Backends -> BOOLEAN]
  /\ served = <<>>
  /\ lastResp = NoResp
  /\ entryStarted = {}
  /\ startLog = <<>>
  /\ stopLog = <<>>
  /\ confirmed = {}
  /\ polled = FALSE
  /\ afterReset = FALSE
  /\ consec = FALSE
  /\ misuse = {}
  /\ retFleet = [server |-> server, handler |-> handler]
  /\ prevRetFleet = [server |-> server, handler |-> handler]
  /\ port = ConfiguredPort
  /\ created = ConfiguredPort
  /\ lastCall = [b \in Backends |-> "none"]
  /\ lastLife = [b \in Backends |-> "none"]
  /\ stoppedWith = [b \in Backends |-> "none"]
  /\ firstPort = [b \in Backends |-> 0]
  /\ boundPort = [b \in Backends |-> 0]
  /\ lastConn = NoConn
  /\ hardCachedIP = ""
  /\ lookups = 0
  /\ dials = 0
  /\ dialed = NoDial
  /\ firstIP = ""
  /\ RunIdle
  /\ check = NoCheck
  /\ scenario = "none"
  /\ edgeCache = [u \in EdgeURLs |-> NoEntry]
  /\ edgeLog = <<>>
  /\ outstanding = 0
  /\ flags \in FlagSets
  /\ startExit = NoExit
  /\ random = <<>>
  /\ uuid = <<>>

\* init() from flag.Parse to the ResetBackends that ends it
NextStart ==
  \/ StartUp
  \/ ResetBackendsCall
  \/ ResetStarted
  \/ ResetNotStarted
  \/ WaitAttempt
  \/ WaitExhausted
  \/ ResetReturn
  \/ \E b \in Backends : EdgeProbe(b)

SpecStart == InitStart /\ [][NextStart]_vars

\* ResetBackends with every request of waitForBackend in two steps, and the
\* tests stopping backends in between
NextPoll ==
  \/ ResetBackendsCall
  \/ ResetStarted
  \/ ResetNotStarted
  \/ PollSend
  \/ PollReceive
  \/ WaitExhausted
  \/ ResetReturn
  \/ \E b \in Backends : EdgeProbe(b)
  \/ \E b \in Backends : TestStop(b)

SpecPoll == Init /\ [][NextPoll]_vars

SpecLive == Init /\ [][Next]_vars /\ WF_vars(ResetStep)

\* The backends on their own, as the tests of the helpers drive them
InitServer ==
  /\ server = [b \in Backends |-> FALSE]
  /\ handler = [b \in Backends |-> "nil"]
  /\ pc = "unit"
  /\ i = 0
  /\ remainingBackendsStopped = FALSE
  /\ try = 0
  /\ err = "nil"
  /\ urls = 0
  /\ requests = 0
  /\ lastSleep = 0
  /\ edgeHealthy = [b \in Backends |-> FALSE]
  /\ served = <<>>
  /\ lastResp = NoResp
  /\ entryStarted = {}
  /\ startLog = <<>>
  /\ stopLog = <<>>
  /\ confirmed = {}
  /\ polled = FALSE
  /\ afterReset = FALSE
  /\ consec = FALSE
  /\ misuse = {}
  /\ retFleet = [server |-> server, handler |-> handler]
  /\ prevRetFleet = [server |-> server, handler |-> handler]
  /\ port = ConfiguredPort
  /\ created = ConfiguredPort
  /\ lastCall = [b \in Backends |-> "none"]
  /\ lastLife = [b \in Backends |-> "none"]
  /\ stoppedWith = [b \in Backends |-> "none"]
  /\ firstPort = [b \in Backends |-> 0]
  /\ boundPort = [b \in Backends |-> 0]
  /\ lastConn = NoConn
  /\ hardCachedIP = ""
  /\ lookups = 0
  /\ dials = 0
  /\ dialed = NoDial
  /\ firstIP = ""
  /\ LaterIdle

NextServer ==
  \/ \E b \in Backends : UnitStart(b)
  \/ \E b \in Backends : UnitStop(b)
  \/ \E b \in Backends, h \in CustomHandlers : UnitSwitchHandler(b, h)
  \/ \E b \in Backends : UnitResetHandler(b)
  \/ \E b \in Backends, m \in Methods, p \in Paths : UnitRequest(b, m, p)

SpecServer == InitServer /\ [][NextServer]_vars

\* Backends created by a test, with the configured port or with port 0
InitSolo ==
  /\ server = [b \in Backends |-> FALSE]
  /\ handler = [b \in Backends |-> "nil"]
  /\ port \in {ps \in [Backends -> {0} \cup Range(ConfiguredPort)] :
                 \A b \in Backends :
                   ps[b] = ConfiguredPort[b] \/ (ps[b] = 0 /\ b \in Solo)}
  /\ created = port
  /\ pc = "solo"
  /\ i = 0
  /\ remainingBackendsStopped = FALSE
  /\ try = 0
  /\ err = "nil"
  /\ urls = 0
  /\ requests = 0
  /\ lastSleep = 0
  /\ edgeHealthy = [b \in Backends |-> FALSE]
  /\ served = <<>>
  /\ lastResp = NoResp
  /\ entryStarted = {}
  /\ startLog = <<>>
  /\ stopLog = <<>>
  /\ confirmed = {}
  /\ polled = FALSE
  /\ afterReset = FALSE
  /\ consec = FALSE
  /\ misuse = {}
  /\ retFleet = [server |-> server, handler |-> handler]
  /\ prevRetFleet = [server |-> server, handler |-> handler]
  /\ lastCall = [b \in Backends |-> "none"]
  /\ lastLife = [b \in Backends |-> "none"]
  /\ stoppedWith = [b \in Backends |-> "none"]
  /\ firstPort = [b \in Backends |-> 0]
  /\ boundPort = [b \in Backends |-> 0]
  /\ lastConn = NoConn
  /\ hardCachedIP = ""
  /\ lookups = 0
  /\ dials = 0
  /\ dialed = NoDial
  /\ firstIP = ""
  /\ LaterIdle

NextSolo ==
  \/ \E b \in Solo : SoloStart(b)
  \/ \E b \in Solo : SoloStop(b)
  \/ \E b \in Solo, h \in CustomHandlers : SoloSwitchHandler(b, h)
  \/ \E b \in Solo : SoloResetHandler(b)
  \/ \E b \in Solo, m \in Methods, p \in Paths : SoloRequest(b, m, p)

SpecSolo == InitSolo /\ [][NextSolo]_vars

\* The connections of the client on their own
InitDial ==
  /\ server = [b \in Backends |-> FALSE]
  /\ handler = [b \in Backends |-> "nil"]
  /\ port = ConfiguredPort
  /\ created = port
  /\ pc = "dial"
  /\ i = 0
  /\ remainingBackendsStopped = FALSE
  /\ try = 0
  /\ err = "nil"
  /\ urls = 0
  /\ requests = 0
  /\ lastSleep = 0
  /\ edgeHealthy = [b \in Backends |-> FALSE]
  /\ served = <<>>
  /\ lastResp = NoResp
  /\ entryStarted = {}
  /\ startLog = <<>>
  /\ stopLog = <<>>
  /\ confirmed = {}
  /\ polled = FALSE
  /\ afterReset = FALSE
  /\ consec = FALSE
  /\ misuse = {}
  /\ retFleet = [server |-> server, handler |-> handler]
  /\ prevRetFleet = [server |-> server, handler |-> handler]
  /\ lastCall = [b \in Backends |-> "none"]
  /\ lastLife = [b \in Backends |-> "none"]
  /\ stoppedWith = [b \in Backends |-> "none"]
  /\ firstPort = [b \in Backends |-> 0]
  /\ boundPort = [b \in Backends |-> 0]
  /\ lastConn = NoConn
  /\ hardCachedIP = ""
  /\ lookups = 0
  /\ dials = 0
  /\ dialed = NoDial
  /\ firstIP = ""
  /\ LaterIdle

NextDial ==
  \/ \E host \in Hosts, p \in DialPorts : Dial(host, p)
  \/ DialLookupFails

SpecDial == InitDial /\ [][NextDial]_vars

\* The test runner and the test functions' calls of RoundTripCheckError
InitRun ==
  /\ pc = "run"
  /\ server = [b \in Backends |-> FALSE]
  /\ handler = [b \in Backends |-> "nil"]
  /\ FleetIdle
  /\ LaterIdle

NextRun ==
  \/ \E t \in Tests : TestRun(t)
  \/ \E t \in Tests, d \in Durations, o \in {"resp", "err"} :
       RoundTripCheckError(t, d, o)
  \/ \E t \in Tests : TestAssertFails(t)
  \/ \E t \in Tests : TestReturn(t)

SpecRun == InitRun /\ [][NextRun]_vars

\* Test 1 runs one of the assertion helpers after ResetBackends returned
InitCheck ==
  /\ pc = "check"
  /\ server = [b \in Backends |-> TRUE]
  /\ handler = [b \in Backends |-> "default"]
  /\ FleetIdle
  /\ LaterIdle

NextCheck ==
  \/ \E respTTL \in TTLs : CachedDurationStart(respTTL)
  \/ \E mode \in EdgeModes, body \in Range(responseBodies) \cup
          {responseNotCached, EdgeOwnBody},
        d \in Durations, o \in Outcomes :
       CachedDurationRequest(mode, body, d, o)
  \/ NotCachedStart
  \/ \E mode \in EdgeModes, body \in Range(responseBodies) \cup
          {EdgeOwnBody},
        d \in Durations, o \in Outcomes :
       NotCachedRequest(mode, body, d, o)
  \/ \E ext \in Exts, fixtureData \in Fixtures, readable \in BOOLEAN :
       NotManipulatedStart(ext, fixtureData, readable)
  \/ \E body \in Fixtures, d \in Durations, o \in Outcomes :
       NotManipulatedRequest(body, d, o)
  \/ CheckProbe

SpecCheck == InitCheck /\ [][NextCheck]_vars

\* A test of the edge's failover or PURGE handling, after ResetBackends
\* returned and with the edge holding every backend healthy
InitEdge ==
  /\ pc = "edge"
  /\ server = [b \in Backends |-> TRUE]
  /\ handler = [b \in Backends |-> "default"]
  /\ FleetIdle
  /\ LaterIdle

NextEdge ==
  \/ \E b \in Backends : EdgeTestStop(b)
  \/ \E b \in Backends :
       \E h \in FailoverHandlers(b) : EdgeTestSwitchHandler(b, h)
  \/ EdgeTestGET
  \/ PurgeTestSwitch
  \/ PurgeTestRequest
  \/ \E b \in Backends : EdgeProbe(b)

SpecEdge == InitEdge /\ [][NextEdge]_vars

\* ------------------------------------------------------------------------
\* Properties
\* ------------------------------------------------------------------------

\* ResetBackends has just returned to its caller
JustReturned == pc = "test" /\ afterReset

\* C1: when ResetBackends returns, whatever the fleet state was on entry,
\* every backend of the fleet is started and has the default handler.
C1_AllStartedDefault ==
  JustReturned => \A b \in Backends : IsStarted(b) /\ handler[b] = "default"

\* a return from a call entered with origin and backup2 started and backup1 not
C1_Witness ==
  JustReturned /\ entryStarted = {1, 3} /\ startLog = <<2, 1>>

\* C2: the first fresh GET through the edge after ResetBackends returned is
\* answered by origin (Backend-Name is the name of the first backend).
C2_FirstGetFromOrigin ==
  lastResp.kind = "first" => lastResp.BackendName = Name[1]

\* C3: within one ResetBackends the Start calls go in strictly decreasing
\* fleet index, every backend started before the latest one is confirmed by
\* waitForBackend, and at most one started backend is unconfirmed.
C3_OrderedBringUp ==
  /\ \A k \in 1..Len(startLog) : \A l \in 1..Len(startLog) :
       k < l => startLog[k] > startLog[l]
  /\ \A k \in 1..Len(startLog) : k < Len(startLog) => startLog[k] \in confirmed
  /\ Cardinality(Range(startLog) \ confirmed) <= 1

\* the third backend (origin) is started and polled after the two mirrors
C3_Witness ==
  pc = "poll" /\ startLog = <<3, 2, 1>> /\ confirmed = {2, 3}

\* C4: while ResetBackends polls for the backend at index i, every backend
\* before it in the fleet is stopped and every backend after it is started.
C4_PollIsolation ==
  pc = "poll" =>
    \A j \in Backends : (j < i => ~IsStarted(j)) /\ (j >= i => IsStarted(j))

\* polling for backup1 after origin, started on entry, was stopped
C4_Witness ==
  pc = "poll" /\ i = 2 /\ try > 0 /\ 1 \in entryStarted /\ stopLog = <<1>>

\* C5: a failed waitForBackend ends the process at once: ResetBackends does
\* not return, the backends before the failed one are never started.
C5_FatalOnWaitFailure ==
  err # "nil" =>
    /\ pc = "exited"
    /\ ~afterReset
    /\ \A j \in Backends : j < i => ~IsStarted(j)
    /\ startLog[Len(startLog)] = i

\* the poll for backup2 failed, origin and backup1 are left not started
C5_Witness ==
  pc = "exited" /\ err = "unavailable" /\ i = 3 /\ ~IsStarted(1) /\ ~IsStarted(2)

\* C6: a ResetBackends that directly follows another one makes no Start, no
\* Stop and no request to the edge, and leaves the fleet as the first left it.
C6_SecondResetIdle ==
  (pc # "init" /\ consec) =>
    /\ startLog = <<>>
    /\ stopLog = <<>>
    /\ ~polled
    /\ Fleet = retFleet
    /\ (JustReturned => retFleet = prevRetFleet)

\* the second of two calls in a row has returned
C6_Witness ==
  JustReturned /\ consec

\* C7 as stated: a backend started on entry of ResetBackends is neither
\* stopped nor started by the call.
C7_StartedNeverStopped ==
  \A b \in entryStarted : b \notin Range(stopLog) /\ b \notin Range(startLog)

\* C7 amended: a backend started on entry, with every backend after it in
\* the fleet started on entry too, is neither stopped nor started by the call
\* and stays started.
C7_StartedTailUntouched ==
  \A b \in entryStarted :
    (\A j \in Backends : j > b => j \in entryStarted) =>
      b \notin Range(stopLog) /\ b \notin Range(startLog) /\ IsStarted(b)

\* a return from a call entered with both mirrors started and origin not
C7_Witness ==
  JustReturned /\ entryStarted = {2, 3} /\ startLog = <<1>> /\ stopLog = <<>>

\* C8: a HEAD for "/" is answered by the server itself with 200 and
\* PING: PONG, and the installed handler is not called.
C8_ProbeAnswered ==
  \A k \in 1..Len(served) :
    (served[k].method = "HEAD" /\ served[k].path = "/") =>
      /\ served[k].status = 200
      /\ served[k].PING = "PONG"
      /\ served[k].handlerCalls = 0
      /\ lastResp.status = 200
      /\ lastResp.PING = "PONG"

\* a probe served by a backend on which a test installed a 503 handler
C8_Witness ==
  /\ served # <<>>
  /\ served[1].method = "HEAD" /\ served[1].path = "/"
  /\ handler[served[1].backend] = "h503"

\* C9: a request that is not a HEAD for "/" is passed to the installed
\* handler, once.
C9_NonProbeDelegated ==
  \A k \in 1..Len(served) :
    ~(served[k].method = "HEAD" /\ served[k].path = "/") =>
      served[k].handlerCalls = 1 /\ served[k].handledBy \in Handlers

\* C10: every response of a backend carries Backend-Name equal to its Name.
C10_IdentityHeader ==
  /\ \A k \in 1..Len(served) : served[k].BackendName = Name[served[k].backend]
  /\ (served # <<>> /\ lastResp.kind = "resp") =>
       lastResp.BackendName = Name[served[Len(served)].backend]

\* a probe answered by backup1 while a test's handler is installed on it
C10_Witness ==
  /\ served # <<>>
  /\ served[1].backend = 2 /\ served[1].method = "HEAD"
  /\ handler[2] = "hTicket"

\* C11: a request that is not a HEAD for "/", served while the handler
\* installed by the last SwitchHandler is h, is handled by h, once and by no
\* other handler.
C11_SwitchedHandlerServes ==
  [][(pc = "unit" /\ served' # served) =>
       \A k \in 1..Len(served') :
         (/\ handler[served'[k].backend] \in CustomHandlers
          /\ ~(served'[k].method = "HEAD" /\ served'[k].path = "/")) =>
           /\ served'[k].handlerCalls = 1
           /\ served'[k].handledBy = handler[served'[k].backend]]_vars

\* C12: a request sent to the port of a backend after Stop returned and
\* before the next Start fails with a transport error, and no backend serves
\* it.
C12_StoppedRefuses ==
  lastConn.after = "Stop" => lastResp.kind = "err" /\ served = <<>>

\* a request to the first backend, stopped after it had been started, failed
C12_Witness ==
  /\ lastConn = [backend |-> 1, after |-> "Stop"]
  /\ lastResp.kind = "err"
  /\ ~IsStarted(1)

\* C13: IsStarted is true exactly when the last of Start and Stop called on
\* the backend is Start (false before the first Start and after each Stop),
\* and a request sent after Start returned is accepted and answered.
C13_IsStartedLifecycle ==
  /\ \A b \in Backends : IsStarted(b) <=> lastLife[b] = "Start"
  /\ lastConn.after = "Start" => lastResp.kind = "resp" /\ served # <<>>

\* a backend started again after a Stop answered a request
C13_Witness ==
  /\ IsStarted(1)
  /\ stoppedWith[1] # "none"
  /\ lastConn = [backend |-> 1, after |-> "Start"]
  /\ lastResp.kind = "resp"

\* C14: when the last call on a backend is Start, its handler is the default
\* handler, whatever handler was installed before.
C14_StartResetsHandler ==
  \A b \in Backends : lastCall[b] = "Start" => handler[b] = "default"

\* a backend stopped with a 503 handler installed has been started again
C14_Witness ==
  lastCall[1] = "Start" /\ stoppedWith[1] = "h503" /\ handler[1] = "default"

\* C15: a backend created with a non-zero Port keeps it; a backend created
\* with Port 0 has, once started, the non-zero port of its first listener,
\* and every Start binds that port.
C15_PortKept ==
  \A b \in Backends :
    /\ created[b] # 0 => port[b] = created[b]
    /\ lastLife[b] # "none" =>
         /\ port[b] # 0
         /\ port[b] = firstPort[b]
         /\ boundPort[b] = firstPort[b]

\* a backend created with Port 0 is started again after a Stop
C15_Witness ==
  /\ created[1] = 0
  /\ stoppedWith[1] # "none"
  /\ lastLife[1] = "Start"
  /\ boundPort[1] = 49153

\* C16: waitForBackend has returned success only on a response whose
\* Backend-Name is the expected name; as long as it polls, and when it has
\* failed, its last response did not carry that name; it has generated one
\* URL for each of its requests.
C16_SuccessIffMarker ==
  /\ (pc = "loop" /\ requests > 0) =>
       /\ err = "nil"
       /\ lastResp.kind = "resp"
       /\ lastResp.BackendName = Name[i + 1]
       /\ i + 1 \in confirmed
  /\ (pc \in {"poll", "exited"} /\ requests > 0) =>
       ~(lastResp.kind = "resp" /\ lastResp.BackendName = Name[i])
  /\ urls = requests

\* waitForBackend("backup1") returned success at its third request
C16_Witness ==
  /\ pc = "loop"
  /\ i = 1
  /\ requests = 3
  /\ lastResp.BackendName = "backup1"

\* C17: when waitForBackend gave up with "still not available after 20
\* attempts" it has made exactly maxRetries requests.
C17_GivesUpAfterMaxRetries ==
  err = "unavailable" => requests = maxRetries

\* C18: a transport error ends waitForBackend and the process at once: the
\* failed request is the last one, at whatever attempt, and no sleep follows.
C18_TransportErrorFatal ==
  err = "transport" =>
    /\ pc = "exited"
    /\ lastResp.kind = "err"
    /\ requests = try + 1
    /\ lastSleep = 0

\* the third request of a poll failed with a transport error
C18_Witness ==
  err = "transport" /\ pc = "exited" /\ try = 2 /\ requests = 3

\* C19: every call of ResetBackends, and every waitForBackend it runs,
\* eventually finishes: ResetBackends returns or the process has exited.
C19_ResetTerminates ==
  (pc \in {"loop", "poll"}) ~> (pc \in {"test", "exited"})

\* a poll the edge never satisfied has used all its attempts and ended
C19_Witness ==
  pc = "exited" /\ err = "unavailable" /\ try = maxRetries + 1 /\ i = 1

\* C20: net.LookupHost is called at most once; the cached address is the one
\* of the first connection to the edge host and never changes; every
\* connection to the edge host dials it; a connection to another host dials
\* the address it was given and leaves the cache as it was.
C20_EdgeResolvedOnce ==
  /\ lookups <= 1
  /\ hardCachedIP = firstIP
  /\ (firstIP = "" /\ pc # "exited") => lookups = 0
  /\ dialed.host = EdgeHost => dialed.addr = firstIP /\ firstIP # ""
  /\ dialed.host \in OtherHosts => dialed.addr = dialed.host

\* a third connection, to port 80 of the edge host, dials the cached address
C20_Witness ==
  /\ dials = 3
  /\ lookups = 1
  /\ dialed = [host |-> EdgeHost, port |-> "80", addr |-> "192.0.2.2"]

\* C21: a transport error in RoundTripCheckError marks the calling test
\* failed and ends it at once: the caller gets nothing back, the request was
\* sent once and never again, and only the test that saw the error is
\* marked by it; the runner goes on to the tests after it.
C21_ErrorAbortsOnlyCaller ==
  /\ \A t \in Tests :
       tests[t].errors > 0 =>
         /\ tests[t].state = "done"
         /\ tests[t].failed
         /\ tests[t].errors = 1
         /\ tests[t].roundTrips = tests[t].checked
  /\ returned.outcome = "err" => returned.value = "none"
  /\ \A t \in Tests :
       tests[t].failed =>
         tests[t].errors > 0 \/ tests[t].slow \/ tests[t].asserted
  /\ pc = "run"

C21_Witness ==
  /\ tests[1].errors = 1
  /\ tests[1].state = "done"
  /\ tests[2].state = "done"
  /\ tests[2].checked = 2
  /\ ~tests[2].failed

\* C22: a request that succeeds but takes longer than the slow-request
\* threshold is reported without failing the test: a test is marked failed
\* only by a transport error or by an assertion of its own that did not hold.
C22_SlowReportDoesNotFail ==
  \A t \in Tests :
    tests[t].failed => tests[t].errors > 0 \/ tests[t].asserted

C25_NotCachedVerdict ==
  check.kind = "notcached" =>
    /\ (check.state = "done" /\ ~tests[1].failed) =>
         /\ check.requestsReceivedCount = 3
         /\ \A k \in 1..3 :
              /\ EdgeForwards(check.modes[k])
              /\ check.bodies[k] = check.originBodies[k]
              /\ check.bodies[k] = responseBodies[k]
    /\ \A k \in 2..Len(check.modes) :
         check.modes[k] = "hit" => tests[1].failed

C25_Witness ==
  /\ check.kind = "notcached"
  /\ check.state = "done"
  /\ check.bodies = responseBodies
  /\ ~tests[1].failed

C27_FailoverOrder ==
  scenario = "failover" =>
    \A k \in 1..Len(edgeLog) :
      LET e == edgeLog[k]
          n == Len(e.hops)
          at == [j \in 1..n |-> e.hops[j].backend]
      IN (e.healthy /\ ~e.hit) =>
           /\ \A j \in 1..(n - 1) : at[j] < at[j + 1]
           /\ \A j \in 1..(n - 1) : handler[at[j]] \in {"h503", "h503nf"}
           /\ \A b \in Backends :
                (b \notin Range(at) /\ \E c \in Range(at) : b < c) =>
                  ~server[b]
           /\ \A b \in Backends :
                ( /\ server[b]
                  /\ \A a \in 1..(b - 1) : ~server[a] \/ handler[a] = "h503" ) =>
                  b \in Range(at)
           /\ \A b \in Backends :
                (server[b] /\ handler[b] \notin {"h503", "h503nf"}) =>
                  /\ \A j \in 1..n : at[j] <= b
                  /\ b \in Range(at) =>
                       /\ e.resp.status = 200
                       /\ e.resp.BackendName = Name[b]
                       /\ e.resp.body = HandlerBody(handler[b], b)

C27_Witness ==
  /\ scenario = "failover"
  /\ Len(edgeLog) = 1
  /\ edgeLog[1].healthy
  /\ handler = <<"h503", "hTicket", "hTicket">>
  /\ \A b \in Backends : server[b]
  /\ Len(edgeLog[1].hops) = 2
  /\ edgeLog[1].resp.BackendName = "backup1"

\* C28: with origin and mirror 1 answering 503 and mirror 2 answering 200
\* with the body "lucky golden ticket", the request of the test returns 200
\* and that body, and each of the three backends received it exactly once.
C28_SecondMirrorAnswers ==
  ( /\ scenario = "failover"
    /\ Len(edgeLog) >= 1
    /\ handler = <<"h503", "h503", "hTicket">>
    /\ \A b \in Backends : server[b] ) =>
    LET e == edgeLog[1]
    IN /\ e.resp.status = 200
       /\ e.resp.body = "lucky golden ticket"
       /\ \A b \in Backends :
            Cardinality({j \in 1..Len(e.hops) : e.hops[j].backend = b}) = 1

C28_Witness ==
  /\ scenario = "failover"
  /\ Len(edgeLog) = 1
  /\ handler = <<"h503", "h503", "hTicket">>
  /\ \A b \in Backends : server[b]
  /\ edgeLog[1].resp.BackendName = "backup2"
  /\ Len(edgeLog[1].hops) = 3

C30_PurgeRefused ==
  (scenario = "purge" /\ Len(edgeLog) = 3) =>
    /\ edgeLog[2].method = "PURGE"
    /\ edgeLog[2].resp.status = 403
    /\ edgeLog[2].hops = <<>>
    /\ edgeLog[3].resp.status = 200
    /\ edgeLog[3].resp.body = edgeLog[1].resp.body
    /\ edgeLog[3].resp.body = "this should not be purged"
    /\ edgeLog[3].hops = <<>>
    /\ Len(edgeLog[1].hops) = 1
    /\ edgeLog[1].hops[1].backend = 1
    /\ ~tests[1].failed

C30_Witness ==
  /\ scenario = "purge"
  /\ Len(edgeLog) = 3
  /\ edgeLog[3].hit
  /\ handler[1] = "hName"

\* C32: a waitForBackend that sees the expected marker on its first attempt
\* returns without sleeping; one that sees it on a later attempt sleeps the
\* propagation window of 5 seconds, once, before it returns; every attempt
\* that did not match is followed by a sleep of 2 seconds.
C32_SleepSchedule ==
  /\ (pc = "poll" /\ requests > 0) =>
       /\ lastSleep = 2
       /\ try = requests
  /\ (pc = "loop" /\ requests > 0) =>
       lastSleep = IF requests = 1 THEN 0 ELSE 5
  /\ (pc = "exited" /\ err = "unavailable") => lastSleep = 2

C32_Witness ==
  /\ pc = "loop"
  /\ requests = 3
  /\ lastSleep = 5
  /\ err = "nil"

\* The highest fleet index of a backend that was not started on entry of the
\* current ResetBackends, 0 when every backend was started
HighestNotStarted ==
  IF entryStarted = Backends THEN 0
  ELSE CHOOSE m \in Backends \ entryStarted :
         \A j \in Backends \ entryStarted : j <= m

\* C35: with m the highest index of a backend not started on entry, a
\* ResetBackends starts and polls the backends of index at most m, each once,
\* and no other; the backends above m are neither stopped nor started nor
\* polled for and stay started; with no backend not started the call makes
\* no Start, no Stop and no request to the edge.
C35_StartsUpToHighest ==
  (pc \in {"loop", "poll", "exited"} \/ JustReturned) =>
    /\ \A b \in Backends : b > HighestNotStarted =>
         /\ b \notin Range(startLog)
         /\ b \notin Range(stopLog)
         /\ b \notin confirmed
         /\ IsStarted(b)
    /\ \A k \in 1..Len(startLog) : startLog[k] = HighestNotStarted - k + 1
    /\ confirmed \subseteq Range(startLog)
    /\ pc = "poll" => i <= HighestNotStarted
    /\ polled => startLog # <<>>
    /\ HighestNotStarted = 0 => startLog = <<>> /\ stopLog = <<>> /\ ~polled
    /\ JustReturned =>
         /\ Len(startLog) = HighestNotStarted
         /\ confirmed = 1..HighestNotStarted

\* a return from a call entered with only backup1 not started: origin was
\* stopped, backup1 and origin were started and polled, backup2 was left alone
C35_Witness ==
  /\ JustReturned
  /\ entryStarted = {1, 3}
  /\ HighestNotStarted = 2
  /\ stopLog = <<1>>
  /\ confirmed = {1, 2}
  /\ IsStarted(3)

C39_OnlyOwnField ==
  [][/\ \A b \in Backends : UnitStop(b) =>
          /\ ~server'[b]
          /\ handler' = handler
          /\ port' = port
          /\ \A c \in Backends \ {b} : server'[c] = server[c]
     /\ \A b \in Backends : \A h \in CustomHandlers : UnitSwitchHandler(b, h) =>
          /\ handler'[b] = h
          /\ server' = server
          /\ port' = port
          /\ \A c \in Backends \ {b} : handler'[c] = handler[c]
     /\ \A b \in Backends : UnitResetHandler(b) =>
          /\ handler'[b] = "default"
          /\ server' = server
          /\ port' = port
          /\ \A c \in Backends \ {b} : handler'[c] = handler[c]]_vars

\* origin was stopped with a custom handler installed and a port assigned
\* while both mirrors run, one of them with another custom handler
C39_Witness ==
  /\ pc = "unit"
  /\ ~server[1]
  /\ handler[1] = "hTicket"
  /\ port[1] # 0
  /\ server[2]
  /\ handler[2] = "h503"
  /\ server[3]
  /\ handler[3] = "default"

\* C37: while the handler of the never-cached check is installed it is
\* called at most three times, once for each request of the check that the
\* edge forwards, so it always finds a prepared body at its index; the
\* health probes that reach origin in between do not call it.
C37_HandlerIndexInRange ==
  check.kind = "notcached" =>
    /\ check.requestsReceivedCount <= Len(responseBodies)
    /\ check.requestsReceivedCount <= check.requestCount
    /\ check.requestCount <= 3
    /\ Len(check.originBodies) = check.requestsReceivedCount
    /\ \A k \in 1..Len(check.originBodies) :
         check.originBodies[k] = responseBodies[k]

\* the check is over, origin was asked three times and probed in between
C37_Witness ==
  /\ check.kind = "notcached"
  /\ check.state = "done"
  /\ check.requestsReceivedCount = 3
  /\ check.originBodies = responseBodies
  /\ check.probes = MaxProbes

\* C34: whatever the fleet state on entry, ResetBackends calls Start only
\* on a backend that is not started and Stop only on a backend that is
\* started: a backend it stops was started on entry, and a backend started
\* on entry that it starts was stopped by it before.
C34_NoLifecycleMisuse ==
  /\ misuse = {}
  /\ (pc \in {"loop", "poll", "exited"} \/ JustReturned) =>
       /\ Range(stopLog) \subseteq entryStarted
       /\ \A k \in 1..Len(stopLog) : \A l \in 1..Len(stopLog) :
            stopLog[k] = stopLog[l] => k = l
       /\ \A b \in Range(startLog) \cap entryStarted : b \in Range(stopLog)

\* a return from a call entered with only the last backend not started:
\* origin and backup1 were stopped, then all three were started
C34_Witness ==
  /\ JustReturned
  /\ entryStarted = {1, 2}
  /\ stopLog = <<1, 2>>
  /\ startLog = <<3, 2, 1>>
  /\ misuse = {}

\* C33: at most one request of waitForBackend to the edge is outstanding at
\* any time: a request is sent only when none is outstanding, one is
\* outstanding only while waitForBackend is blocked in the round trip, and
\* no waitForBackend begins before the one before it has returned, so the
\* backend polled for is the only one started and not yet confirmed.
C33_OnePollOutstanding ==
  /\ outstanding \in {0, 1}
  /\ outstanding = 1 <=> pc = "sent"
  /\ pc \in {"poll", "sent"} =>
       /\ startLog # <<>>
       /\ startLog[Len(startLog)] = i
       /\ Range(startLog) \ confirmed = {i}
  /\ pc \in {"loop", "test"} => Range(startLog) \ confirmed = {}

\* the third request of a waitForBackend is on its way to the edge
C33_Witness ==
  /\ pc = "sent"
  /\ outstanding = 1
  /\ requests = 3
  /\ try = 2

\* Nothing of the fleet has been touched: no backend started, no port
\* bound, no request sent to the edge
NothingStarted ==
  /\ \A b \in Backends : ~server[b] /\ handler[b] = "nil"
  /\ port = ConfiguredPort
  /\ startLog = <<>>
  /\ ~polled
  /\ requests = 0
  /\ urls = 0
  /\ lastResp = NoResp

\* C38 as stated: without an edge host name in the configuration, start-up
\* ends the process with a non-zero status before any backend is started,
\* any port is bound or any request is sent to the edge.
C38_MissingHostNonZero ==
  (pc # "flags" /\ flags.edgeHost = "") =>
    /\ pc = "exited"
    /\ startExit > 0
    /\ NothingStarted

\* C38 amended: without an edge host name in the configuration, start-up
\* ends the process before any backend is started, any port is bound or any
\* request is sent to the edge; the status is 1, or 0 when the usage was
\* asked for.
C38_MissingHostExits ==
  (pc # "flags" /\ flags.edgeHost = "") =>
    /\ pc = "exited"
    /\ startExit = IF flags.usage THEN 0 ELSE 1
    /\ NothingStarted

\* start-up ended with status 1 for a command line without -edgeHost
C38_Witness ==
  /\ pc = "exited"
  /\ flags.edgeHost = ""
  /\ ~flags.usage
  /\ startExit = 1
  /\ NothingStarted

\* The places of the hyphens in the string of a UUID
HyphenAt == {9, 14, 19, 24}

\* The place in the string of the first digit of byte k (counted from 1)
DigitAt(k) ==
  2 * k - 1 + (IF k <= 4 THEN 0 ELSE IF k <= 6 THEN 1 ELSE IF k <= 8 THEN 2
               ELSE IF k <= 10 THEN 3 ELSE 4)

\* The value of a lower-case hex digit
HexValue(c) == CHOOSE v \in 0..15 : HexDigits[v + 1] = c

\* The byte that the string str spells at the place of byte k
SpelledByte(str, k) ==
  16 * HexValue(str[DigitAt(k)]) + HexValue(str[DigitAt(k) + 1])

\* C40: for every 16 random bytes the string NewUUID returns has 36
\* characters, hyphens after 8, 12, 16 and 20 digits and lower-case hex
\* digits elsewhere; it spells byte 6 with its high nibble set to 4 and its
\* low nibble kept, byte 8 with its top two bits set to binary 10 and its
\* low six bits kept, and every other byte unchanged.
C40_UUIDLayout ==
  uuid # <<>> =>
    /\ Len(uuid) = 36
    /\ \A p \in HyphenAt : uuid[p] = "-"
    /\ \A p \in (1..36) \ HyphenAt : uuid[p] \in Range(HexDigits)
    /\ SpelledByte(uuid, 7) \div 16 = 4
    /\ SpelledByte(uuid, 7) % 16 = random[7] % 16
    /\ SpelledByte(uuid, 9) \div 64 = 2
    /\ SpelledByte(uuid, 9) % 64 = random[9] % 64
    /\ \A k \in (1..16) \ {7, 9} : SpelledByte(uuid, k) = random[k]

\* NewUUID returned for bytes beginning with 0x0a, byte 6 being 0xff and
\* byte 8 being 0x00: the string begins with 0a and spells 4f and 80
C40_Witness ==
  /\ uuid # <<>>
  /\ random[1] = 10
  /\ random[7] = 255
  /\ random[9] = 0
  /\ SubSeq(uuid, 1, 2) = <<"0", "a">>
  /\ SubSeq(uuid, 15, 16) = <<"4", "f">>
  /\ SubSeq(uuid, 20, 21) = <<"8", "0">>


====
